---------------------------- MODULE Spec2Model ----------------------------
(***************************************************************************)
(* rwelcome: the todo list of the login banner.                            *)
(*                                                                         *)
(* The model covers acquire_todos (the load of the storage file),          *)
(* edit_todos (the external-editor path and the verbs done/check, fix,     *)
(* add, followed by the save) in both copies the repository holds          *)
(* (src/ext.rs and src/main.rs), and main (load, argument handling,        *)
(* render).                                                                *)
(*                                                                         *)
(* A string is a sequence of one-character strings, a todo list a          *)
(* sequence of strings, the storage file a record [exists, data].          *)
(***************************************************************************)
EXTENDS Integers, Sequences, FiniteSets, TLC

\* ------------------------------------------------------------ bounds

\* Longest todo list: initial files hold at most this many items, and add is
\* offered only below it.
MaxLen == 2

\* Largest number of comma-separated indices in one done/check batch.
MaxBatch == 2

\* ------------------------------------------------------------ strings

NL == "\n"
CR == "\r"

Digits == <<"0", "1", "2", "3", "4", "5", "6", "7", "8", "9">>

IsDigit(c) == \E i \in 1..10 : Digits[i] = c

DigitVal(c) == (CHOOSE i \in 1..10 : Digits[i] = c) - 1

\* i32::MAX
I32Max == 2147483647

\* slice.join(sep) on strings
RECURSIVE Join(_, _)
Join(strs, sep) ==
    IF strs = <<>> THEN <<>>
    ELSE IF Len(strs) = 1 THEN strs[1]
    ELSE strs[1] \o sep \o Join(Tail(strs), sep)

\* str.split(ch): the pieces between the occurrences of ch; never empty
\* (the empty string splits into one empty piece).
RECURSIVE SplitAcc(_, _, _)
SplitAcc(s, ch, cur) ==
    IF s = <<>> THEN <<cur>>
    ELSE IF Head(s) = ch THEN <<cur>> \o SplitAcc(Tail(s), ch, <<>>)
    ELSE SplitAcc(Tail(s), ch, Append(cur, Head(s)))

Split(s, ch) == SplitAcc(s, ch, <<>>)

\* The digits of str.parse::<i32>(), most significant first; acc is the
\* magnitude so far.  An overflow of the i32 range is a parse error.
RECURSIVE ParseDigits(_, _)
ParseDigits(s, acc) ==
    IF s = <<>> THEN [ok |-> TRUE, val |-> acc]
    ELSE IF ~IsDigit(Head(s)) THEN [ok |-> FALSE, val |-> 0]
    ELSE IF acc > (I32Max - DigitVal(Head(s))) \div 10
         THEN [ok |-> FALSE, val |-> 0]
    ELSE ParseDigits(Tail(s), acc * 10 + DigitVal(Head(s)))

\* str.parse::<i32>(): an optional sign, then at least one digit, nothing
\* else (no blanks).
ParseI32(s) ==
    IF s = <<>> THEN [ok |-> FALSE, val |-> 0]
    ELSE IF Head(s) = "-" \/ Head(s) = "+"
         THEN IF Tail(s) = <<>> THEN [ok |-> FALSE, val |-> 0]
              ELSE LET m == ParseDigits(Tail(s), 0)
                   IN  IF ~m.ok THEN m
                       ELSE IF Head(s) = "-" THEN [ok |-> TRUE, val |-> 0 - m.val]
                       ELSE m
    ELSE ParseDigits(s, 0)

\* ------------------------------------------------------------ results

Ok(v) == [kind |-> "ok", val |-> v, err |-> "none"]

Err(e) == [kind |-> "err", val |-> <<>>, err |-> e]

Panic(e) == [kind |-> "panic", val |-> <<>>, err |-> e]

\* ------------------------------------------------------------ load

\* BufRead::lines(): the pieces ended by a newline lose it and a carriage
\* return before it; a last piece without newline is a line unless empty.
RECURSIVE StripLines(_)
StripLines(pieces) ==
    IF Len(pieces) = 1
    THEN IF pieces[1] = <<>> THEN <<>> ELSE <<pieces[1]>>
    ELSE LET p == Head(pieces)
             q == IF p # <<>> /\ p[Len(p)] = CR THEN SubSeq(p, 1, Len(p) - 1) ELSE p
         IN  <<q>> \o StripLines(Tail(pieces))

Lines(data) == StripLines(Split(data, NL))

\* A loop that stops at a line starting with '#' instead of skipping it.
RECURSIVE TodoBlockStopsAtComment(_, _)
TodoBlockStopsAtComment(lines, todos) ==
    IF lines = <<>> THEN Ok(todos)
    ELSE IF \E i \in 1..Len(Head(lines)) : Head(lines)[i] = "0xFF" THEN Err("utf8")
    ELSE IF Head(lines) = <<>> THEN Ok(todos)
    ELSE IF Head(Head(lines)) = "#" THEN Ok(todos)
    ELSE TodoBlockStopsAtComment(Tail(lines), Append(todos, Head(lines)))

\* A byte that occurs in no UTF-8 text.
BAD == "0xFF"

\* `maybe_line?`: lines() gives an error for a line that is not UTF-8.
ValidUtf8(line) == \A i \in 1..Len(line) : line[i] # BAD

\* The loop of acquire_todos over the lines still to read, todos being the
\* items pushed so far: a line that is not UTF-8 returns the error, the
\* first empty line stops the loop, a line starting with '#' is skipped, any
\* other is pushed.
RECURSIVE TodoBlock(_, _)
TodoBlock(lines, todos) ==
    IF lines = <<>> THEN Ok(todos)
    ELSE IF ~ValidUtf8(Head(lines)) THEN Err("utf8")
    ELSE IF Head(lines) = <<>> THEN Ok(todos)
    ELSE IF Head(Head(lines)) = "#" THEN TodoBlock(Tail(lines), todos)
    ELSE TodoBlock(Tail(lines), Append(todos, Head(lines)))

acquire_todos(f) ==
    IF ~f.exists THEN Err("open")
    ELSE TodoBlock(Lines(f.data), <<>>)

\* ------------------------------------------------------------ edit_todos

S_edit == <<"e", "d", "i", "t">>
S_done == <<"d", "o", "n", "e">>
S_check == <<"c", "h", "e", "c", "k">>
S_fix == <<"f", "i", "x">>
S_add == <<"a", "d", "d">>

\* args[from..] of a 0-based Rust vector held as a 1-based sequence:
\* args[3..] is ArgsFrom(args, 3).
ArgsFrom(args, from) == SubSeq(args, from + 1, Len(args))

\* (v as usize) > n for an i32 v and a vector length n: a negative v
\* sign-extends to a value above every vector length.
AsUsizeGt(v, n) == IF v < 0 THEN TRUE ELSE v > n

\* (v as usize) < 1 for an i32 v: only 0 is.
AsUsizeLt1(v) == v = 0

\* The test `idx > current_todos.len() || idx < 1` of done/check and fix.
OutOfList(v, todos) == AsUsizeGt(v, Len(todos)) \/ AsUsizeLt1(v)

\* Vec::remove(i - 1) for a 1-based i within the list.
RemoveAt(todos, i) == SubSeq(todos, 1, i - 1) \o SubSeq(todos, i + 1, Len(todos))

\* The outcome of the verb part: how it ended and the list handed in
\* (current_todos, edited in place) as it is then.
VerbOk(todos) == [res |-> "ok", err |-> "none", todos |-> todos]

VerbErr(e, todos) == [res |-> "err", err |-> e, todos |-> todos]

VerbPanic(e, todos) == [res |-> "panic", err |-> e, todos |-> todos]

\* `for i in (0..targets.len()).rev()`: the targets are visited from the last
\* position of the batch to the first; each is tested against the list as it
\* is then and removed.  i is the number of targets still to visit.
RECURSIVE RemoveTargets(_, _, _)
RemoveTargets(todos, targets, i) ==
    IF i = 0 THEN VerbOk(todos)
    ELSE IF OutOfList(targets[i], todos) THEN VerbErr("index", todos)
    ELSE RemoveTargets(RemoveAt(todos, targets[i]), targets, i - 1)

\* done / check: args[3..] joined by blanks, split at commas, every piece
\* parsed (a piece that is no i32 panics in expect, before any removal).
DoneVerb(current, args) ==
    LET the_rest == Join(ArgsFrom(args, 3), <<" ">>)
        pieces == Split(the_rest, ",")
        parsed == [i \in 1..Len(pieces) |-> ParseI32(pieces[i])]
        targets == [i \in 1..Len(pieces) |-> parsed[i].val]
    IN  IF \E i \in 1..Len(pieces) : ~parsed[i].ok
        THEN VerbPanic("parse", current)
        ELSE RemoveTargets(current, targets, Len(targets))

\* fix with the slot taken as a 0-based position (the `- 1` forgotten).
FixVerbWrongSlot(current, args) ==
    IF Len(args) < 3 THEN VerbErr("index", current)
    ELSE IF Len(args) < 4 THEN VerbPanic("bounds", current)
    ELSE LET idx == ParseI32(args[4])
             content == Join(ArgsFrom(args, 4), <<" ">>)
         IN  IF ~idx.ok THEN VerbPanic("parse", current)
             ELSE IF OutOfList(idx.val, current) THEN VerbErr("index", current)
             ELSE IF idx.val = Len(current) THEN VerbPanic("bounds", current)
             ELSE VerbOk([current EXCEPT ![idx.val + 1] = content])

\* fix: args[3] is the index (indexing a missing args[3] panics, and so does
\* a text that is no i32), args[4..] joined by blanks the new text.
FixVerb(current, args) ==
    IF Len(args) < 3 THEN VerbErr("index", current)
    ELSE IF Len(args) < 4 THEN VerbPanic("bounds", current)
    ELSE LET idx == ParseI32(args[4])
             content == Join(ArgsFrom(args, 4), <<" ">>)
         IN  IF ~idx.ok THEN VerbPanic("parse", current)
             ELSE IF OutOfList(idx.val, current) THEN VerbErr("index", current)
             ELSE VerbOk([current EXCEPT ![idx.val] = content])

\* add that inserts at the head of the list.
AddVerbFront(current, args) == VerbOk(<<Join(ArgsFrom(args, 3), <<" ">>)>> \o current)

\* add: args[3..] joined by blanks is pushed.
AddVerb(current, args) == VerbOk(Append(current, Join(ArgsFrom(args, 3), <<" ">>)))

\* The verb part of edit_todos, from the assert to the last else.
VerbEdit(current, args) ==
    IF ~(Len(args) > 2) THEN VerbPanic("assert", current)
    ELSE LET verb == args[3]
         IN  IF verb = S_done \/ verb = S_check THEN DoneVerb(current, args)
             ELSE IF verb = S_fix THEN FixVerb(current, args)
             ELSE IF verb = S_add THEN AddVerb(current, args)
             ELSE VerbErr("verb", current)

\* A save that ends the file with a newline.
FileDataNewlineEnded(todos) == Join(todos, <<NL>>) \o <<NL>>

\* What the save writes: the items joined by newlines.
FileData(todos) == Join(todos, <<NL>>)

\* The outcome of edit_todos: its result, the list handed in as it is at the
\* return, the storage file then, and what the save did ("none": not tried).
Outcome(res, todos, f, save) == [res |-> res, todos |-> todos, file |-> f, save |-> save]

\* The save of src/ext.rs: File::create truncates the file, write fills it;
\* a failure of either is returned as an error.  disk is what the file
\* system does: "ok", "create_failed" or "write_failed" (a failed write has
\* written no byte: the file stays truncated).
SaveExt(todos, f, disk) ==
    IF disk = "create_failed" THEN Outcome(Err("create"), todos, f, "create_failed")
    ELSE IF disk = "write_failed"
         THEN Outcome(Err("write"), todos, [exists |-> TRUE, data |-> <<>>], "write_failed")
    ELSE Outcome(Ok(todos), todos, [exists |-> TRUE, data |-> FileData(todos)], "ok")

\* The save of src/main.rs: the same, with expect: a failure panics.
SaveMain(todos, f, disk) ==
    IF disk = "create_failed" THEN Outcome(Panic("create"), todos, f, "create_failed")
    ELSE IF disk = "write_failed"
         THEN Outcome(Panic("write"), todos, [exists |-> TRUE, data |-> <<>>], "write_failed")
    ELSE Outcome(Ok(todos), todos, [exists |-> TRUE, data |-> FileData(todos)], "ok")

\* The editor path: the editor is spawned on the storage file and waited for.
\* env.editor is "spawn_failed" (expect panics), "nonzero" or "zero" (its exit
\* status); env.edited is the file as the editor leaves it.
EditorPath(current, f, env) ==
    IF env.editor = "spawn_failed" THEN Outcome(Panic("spawn"), current, f, "none")
    ELSE IF env.editor = "nonzero" THEN Outcome(Err("editor"), current, env.edited, "none")
    ELSE Outcome(acquire_todos(env.edited), current, env.edited, "none")

\* The verb path: the verb, then the save unless the verb returned or
\* panicked.
VerbPathExt(current, args, f, env) ==
    LET v == VerbEdit(current, args)
    IN  IF v.res = "panic" THEN Outcome(Panic(v.err), v.todos, f, "none")
        ELSE IF v.res = "err" THEN Outcome(Err(v.err), v.todos, f, "none")
        ELSE SaveExt(v.todos, f, env.disk)

\* The verb path saving the list as it stands also when the verb returned
\* an error.
VerbPathMainSavesOnError(current, args, f, env) ==
    LET v == VerbEdit(current, args)
    IN  IF v.res = "panic" THEN Outcome(Panic(v.err), v.todos, f, "none")
        ELSE IF v.res = "err"
             THEN Outcome(Err(v.err), v.todos, SaveMain(v.todos, f, "ok").file, "ok")
        ELSE SaveMain(v.todos, f, env.disk)

VerbPathMain(current, args, f, env) ==
    LET v == VerbEdit(current, args)
    IN  IF v.res = "panic" THEN Outcome(Panic(v.err), v.todos, f, "none")
        ELSE IF v.res = "err" THEN Outcome(Err(v.err), v.todos, f, "none")
        ELSE SaveMain(v.todos, f, env.disk)

\* edit_todos of src/ext.rs.
edit_todos_ext(current, wants_editor, args, f, env) ==
    IF wants_editor THEN EditorPath(current, f, env)
    ELSE VerbPathExt(current, args, f, env)

\* edit_todos of src/main.rs, the one main calls.
edit_todos_main(current, wants_editor, args, f, env) ==
    IF wants_editor THEN EditorPath(current, f, env)
    ELSE VerbPathMain(current, args, f, env)

\* ------------------------------------------------------------ inputs

S_prog == <<"r", "w", "e", "l", "c", "o", "m", "e">>
S_list == <<"l", "i", "s", "t">>
S_rm == <<"r", "m">>
S_a == <<"a">>
S_b == <<"b">>
S_hash_a == <<"#", "a">>

Numeral(n) == <<Digits[n + 1]>>

\* The index texts of the command line: 0, the positions of the longest list,
\* one past it and a text that is no number.
IdxTokens == {Numeral(n) : n \in 0..(MaxLen + 1)} \cup {<<"x">>}

\* fix also gets a negative index.
FixTokens == IdxTokens \cup {<<"-", "1">>}

Range(q) == {q[i] : i \in DOMAIN q}

RECURSIVE SeqsUpTo(_, _)
SeqsUpTo(S, n) ==
    IF n = 0 THEN {<<>>}
    ELSE LET shorter == SeqsUpTo(S, n - 1)
         IN  shorter \cup {Append(q, x) : q \in shorter, x \in S}

\* done/check: one argument of comma-separated index texts; no argument; two
\* arguments (joined by a blank before the split).
DoneRests ==
    {<<Join(b, <<",">>)>> : b \in SeqsUpTo(IdxTokens, MaxBatch) \ {<<>>}}
        \cup {<<>>, <<Numeral(1), Numeral(2)>>}

\* The texts of add and fix: none, one word, a word starting with '#', two
\* words.
TextRests == {<<>>, <<S_a>>, <<S_hash_a>>, <<S_a, S_b>>}

FixRests == {<<t>> \o r : t \in FixTokens, r \in TextRests} \cup {<<>>}

VerbVectors ==
    {<<S_prog, S_edit, v>> \o r : v \in {S_done, S_check}, r \in DoneRests}
        \cup {<<S_prog, S_edit, S_fix>> \o r : r \in FixRests}
        \cup {<<S_prog, S_edit, S_add>> \o r : r \in TextRests}
        \cup {<<S_prog, S_edit, S_rm, Numeral(1)>>}

\* The command lines: no argument, an argument that is not `edit`, `edit`
\* alone, `edit` with a verb.
ArgVectors ==
    {<<S_prog>>, <<S_prog, S_list>>, <<S_prog, S_edit>>} \cup VerbVectors

NoFile == [exists |-> FALSE, data |-> <<>>]

FileOf(data) == [exists |-> TRUE, data |-> data]

\* Storage files as a user or an editor leaves them: none, empty, two items
\* without final newline, a comment line then an item then a blank line and
\* a further line, an item then a line that is not UTF-8.
UserFiles ==
    {NoFile,
     FileOf(<<>>),
     FileOf(S_a \o <<NL>> \o S_a \o <<" ">> \o S_b),
     FileOf(S_hash_a \o <<NL>> \o S_a \o <<NL, NL>> \o S_b \o <<NL>>),
     FileOf(S_a \o <<NL, BAD, NL>>)}

DiskOutcomes == {"ok", "create_failed", "write_failed"}

\* What the environment does during one call of edit_todos.
Envs(wants_editor, f) ==
    IF wants_editor
    THEN {[editor |-> "spawn_failed", edited |-> f, disk |-> "ok"]}
            \cup {[editor |-> e, edited |-> g, disk |-> "ok"] :
                    e \in {"nonzero", "zero"}, g \in UserFiles \cup {f}}
    ELSE {[editor |-> "zero", edited |-> f, disk |-> d] : d \in DiskOutcomes}

\* ------------------------------------------------------------ state

VARIABLES
    file,      \* the storage file
    pc,        \* where the process is: idle, args, render, done, exited, panicked, ext
    args,      \* env::args() of the invocation
    todos,     \* main's `todos`: the result of the load, then of edit_todos
    call,      \* the last call of edit_todos: who called, inputs, outcome
    shown,     \* what the Todos field of the banner displayed
    reported,  \* the errors this invocation wrote to the error stream
    exit       \* the exit code of the invocation (-1 while it runs)

vars == <<file, pc, args, todos, call, shown, reported, exit>>

NoResult == [kind |-> "none", val |-> <<>>, err |-> "none"]

\* A call of edit_todos: the caller, the list handed in, wants_editor, what
\* the editor did ("none" on the verb path), the storage file before, and
\* the outcome.
NoCall ==
    [who |-> "none", pre |-> <<>>, wants_editor |-> FALSE, editor |-> "none",
     before |-> NoFile, out |-> Outcome(NoResult, <<>>, NoFile, "none")]

Call(who, pre, wants_editor, env, before, out) ==
    [who |-> who, pre |-> pre, wants_editor |-> wants_editor,
     editor |-> IF wants_editor THEN env.editor ELSE "none",
     before |-> before, out |-> out]

Terminal == {"done", "exited", "panicked", "ext"}

Init ==
    /\ file \in UserFiles
    /\ pc = "idle"
    /\ args = <<S_prog>>
    /\ todos = NoResult
    /\ call = NoCall
    /\ shown = NoResult
    /\ reported = {}
    /\ exit = -1

\* add is offered while the list is below MaxLen.
WithinBound(a, f) ==
    (Len(a) > 2 /\ a[3] = S_add) =>
        (acquire_todos(f).kind = "ok" => Len(acquire_todos(f).val) < MaxLen)

\* main up to the argument handling: a new process is started with the
\* command line a and loads the todos.
MainStart(a) ==
    /\ pc = "idle"
    /\ WithinBound(a, file)
    /\ pc' = "args"
    /\ args' = a
    /\ todos' = acquire_todos(file)
    /\ call' = NoCall
    /\ shown' = NoResult
    /\ reported' = {}
    /\ exit' = -1
    /\ UNCHANGED file

\* No argument: straight to the render.
MainNoArgs ==
    /\ pc = "args"
    /\ ~(Len(args) > 1)
    /\ pc' = "render"
    /\ UNCHANGED <<file, args, todos, call, shown, reported, exit>>

\* A first argument that is not `edit`: main returns Err.
MainBadArg ==
    /\ pc = "args"
    /\ Len(args) > 1
    /\ args[2] # S_edit
    /\ pc' = "exited"
    /\ reported' = reported \cup {"arg"}
    /\ exit' = 1
    /\ UNCHANGED <<file, args, todos, call, shown>>

\* `edit` with the load failed: panic!.
MainLoadPanic ==
    /\ pc = "args"
    /\ Len(args) > 1
    /\ args[2] = S_edit
    /\ todos.kind # "ok"
    /\ pc' = "panicked"
    /\ reported' = reported \cup {"panic"}
    /\ exit' = 101
    /\ UNCHANGED <<file, args, todos, call, shown>>

\* `edit` with the todos loaded: edit_todos is called and its result becomes
\* `todos`, unless it panics.
MainEdit ==
    /\ pc = "args"
    /\ Len(args) > 1
    /\ args[2] = S_edit
    /\ todos.kind = "ok"
    /\ LET wants_editor == Len(args) = 2
       IN  \E env \in Envs(wants_editor, file) :
             LET out == edit_todos_main(todos.val, wants_editor, args, file, env)
             IN  /\ call' = Call("main", todos.val, wants_editor, env, file, out)
                 /\ file' = out.file
                 /\ IF out.res.kind = "panic"
                    THEN /\ pc' = "panicked"
                         /\ reported' = reported \cup {"panic"}
                         /\ exit' = 101
                         /\ UNCHANGED todos
                    ELSE /\ pc' = "render"
                         /\ todos' = out.res
                         /\ UNCHANGED <<reported, exit>>
    /\ UNCHANGED <<args, shown>>

\* The render: the Todos field shows the list, or the error on the error
\* stream; main returns Ok.
MainRender ==
    /\ pc = "render"
    /\ shown' = todos
    /\ reported' = IF todos.kind = "ok" THEN reported ELSE reported \cup {"todos"}
    /\ exit' = 0
    /\ pc' = "done"
    /\ UNCHANGED <<file, args, todos, call>>

\* A call of the edit_todos of src/ext.rs by a caller that, as main does,
\* hands it the loaded list and asks for the editor when no verb is given.
ExtEdit(a) ==
    /\ pc = "idle"
    /\ Len(a) > 1
    /\ a[2] = S_edit
    /\ WithinBound(a, file)
    /\ acquire_todos(file).kind = "ok"
    /\ LET wants_editor == Len(a) = 2
           current == acquire_todos(file).val
       IN  \E env \in Envs(wants_editor, file) :
             LET out == edit_todos_ext(current, wants_editor, a, file, env)
             IN  /\ call' = Call("ext", current, wants_editor, env, file, out)
                 /\ file' = out.file
    /\ pc' = "ext"
    /\ args' = a
    /\ todos' = NoResult
    /\ shown' = NoResult
    /\ reported' = {}
    /\ exit' = -1

\* The process (or the caller of edit_todos) ends: only the storage file
\* outlives it.
ProcessEnd ==
    /\ pc \in Terminal
    /\ pc' = "idle"
    /\ args' = <<S_prog>>
    /\ todos' = NoResult
    /\ call' = NoCall
    /\ shown' = NoResult
    /\ reported' = {}
    /\ exit' = -1
    /\ UNCHANGED file

Next ==
    \/ \E a \in ArgVectors : MainStart(a)
    \/ MainNoArgs
    \/ MainBadArg
    \/ MainLoadPanic
    \/ MainEdit
    \/ MainRender
    \/ \E a \in ArgVectors : ExtEdit(a)
    \/ ProcessEnd

Spec == Init /\ [][Next]_vars

\* ------------------------------------------------------------ claims

\* A call of edit_todos on the verb path has returned (or panicked).
VerbCall == call.who # "none" /\ ~call.wants_editor /\ Len(args) > 2

\* The save was not refused by the file system (it succeeded or was not
\* tried).
DiskFine == call.out.save \in {"none", "ok"}

\* The verb of the call is done or check and every index text is a number.
BatchCall ==
    /\ VerbCall
    /\ args[3] \in {S_done, S_check}
    /\ \A t \in Range(Split(Join(ArgsFrom(args, 3), <<" ">>), ",")) : ParseI32(t).ok

\* The batch of a BatchCall, as numbers.
Batch ==
    LET pieces == Split(Join(ArgsFrom(args, 3), <<" ">>), ",")
    IN  [i \in 1..Len(pieces) |-> ParseI32(pieces[i]).val]

\* The items of list at the positions outside S, in their order.
RECURSIVE KeepFrom(_, _, _)
KeepFrom(list, S, i) ==
    IF i > Len(list) THEN <<>>
    ELSE (IF i \in S THEN <<>> ELSE <<list[i]>>) \o KeepFrom(list, S, i + 1)

Without(list, S) == KeepFrom(list, S, 1)

NoNewline(list) == \A i \in 1..Len(list) : \A j \in 1..Len(list[i]) : list[i][j] # NL

\* C1 (as claimed): after a verb has saved a list whose items hold no
\* newline, loading the storage file yields that list again, also when it
\* holds an empty item or an item starting with '#'.
C1_RoundTrip ==
    (VerbCall /\ call.out.save = "ok" /\ NoNewline(call.out.todos))
        => acquire_todos(call.out.file) = Ok(call.out.todos)

\* C2 (as claimed): a done/check batch holding any index below 1 or above
\* the length of the list before the batch returns the index error and
\* leaves the list handed in unchanged, wherever the index stands.
C2_AllOrNothing ==
    (BatchCall /\ \E i \in DOMAIN Batch : Batch[i] < 1 \/ Batch[i] > Len(call.pre))
        => /\ call.out.res = Err("index")
           /\ call.out.todos = call.pre

\* C3 (as claimed): a done/check batch of distinct indices, all within
\* 1..len of the list before the batch, succeeds (the file system willing)
\* and leaves the list without exactly the items at those positions, the
\* others in their order, whatever the order of the batch.
C3_BatchRemoval ==
    (/\ BatchCall
     /\ DiskFine
     /\ \A i \in DOMAIN Batch : Batch[i] \in 1..Len(call.pre)
     /\ \A i, j \in DOMAIN Batch : i # j => Batch[i] # Batch[j])
        => /\ call.out.res = Ok(Without(call.pre, Range(Batch)))
           /\ call.out.todos = Without(call.pre, Range(Batch))

\* The verb of the call is fix, with an index text that is a number.
FixCall == VerbCall /\ args[3] = S_fix /\ Len(args) > 3 /\ ParseI32(args[4]).ok

FixIdx == ParseI32(args[4]).val

FixText == Join(ArgsFrom(args, 4), <<" ">>)

\* C4: fix with 1 <= index <= len puts the text at that position and leaves
\* the length and every other position as they were (and returns that list
\* when the file system lets it save); with any other index it returns the
\* index error and leaves the list and the storage file untouched.
C4_ReplaceFrame ==
    FixCall =>
        IF FixIdx \in 1..Len(call.pre)
        THEN /\ Len(call.out.todos) = Len(call.pre)
             /\ call.out.todos[FixIdx] = FixText
             /\ \A j \in 1..Len(call.pre) : j # FixIdx => call.out.todos[j] = call.pre[j]
             /\ call.out.res.err # "index"
             /\ DiskFine => call.out.res = Ok(call.out.todos)
        ELSE /\ call.out.res = Err("index")
             /\ call.out.todos = call.pre
             /\ call.out.file = call.before

\* C4's case: a fix of a position of a list of two or more items, with a
\* text that differs from the item, has succeeded.
C4_Replaced ==
    /\ FixCall
    /\ FixIdx \in 1..Len(call.pre)
    /\ Len(call.pre) >= 2
    /\ call.pre[FixIdx] # FixText
    /\ call.out.res.kind = "ok"

\* The verb of the call is add.
AddCall == VerbCall /\ args[3] = S_add

AddText == Join(ArgsFrom(args, 3), <<" ">>)

C6_NoPanic ==
    (VerbCall /\ DiskFine) =>
        /\ call.out.res.kind \in {"ok", "err"}
        /\ pc # "panicked"

\* The invocation of main has ended.
Ended == pc \in {"done", "exited", "panicked"}

\* C7 (as claimed): an invocation that reported an error ends with a
\* non-zero exit code, and one that reported none ends with exit code 0.
C7_ExitStatus == Ended => ((reported # {}) <=> (exit # 0))

\* done/check, fix or an unknown verb has returned an error.
FailedEdit == VerbCall /\ args[3] # S_add /\ call.out.res.kind = "err"

\* After the call: the file is as before and still loads to the list handed
\* in, and main is at the render or past it.
StorageKept ==
    /\ file = call.before
    /\ acquire_todos(file) = Ok(call.pre)
    /\ call.who = "main" => pc \in {"render", "done"}

\* C8 (as claimed): whenever done/check, fix or an unknown verb returns an
\* error, the storage file still holds the list as it was before the edit,
\* and the program reaches the render.
C8_FailedEditKeepsStorage == FailedEdit => StorageKept

\* C8 (amended): the same for every error but the failed write of the save,
\* which src/ext.rs returns after File::create has emptied the file.
C8_EditErrorKeepsStorage == (FailedEdit /\ call.out.res.err # "write") => StorageKept

\* C8's case: main has rendered after a done that removed an item and then
\* returned the index error.
C8_PartialEditDropped ==
    /\ FailedEdit
    /\ call.who = "main"
    /\ call.out.res.err = "index"
    /\ call.out.todos # call.pre
    /\ pc = "done"

\* The load of main failed (and edit_todos was not reached).
LoadFailed == call.who = "none" /\ todos.kind = "err"

\* C9 (as claimed): with no argument, with `edit` alone and with `edit` and
\* a verb, a failed load ends in the render with the error as the Todos
\* field; the process does not panic.
C9_LoadFailureNotFatal ==
    (Ended /\ LoadFailed /\ (Len(args) = 1 \/ args[2] = S_edit)) =>
        /\ pc = "done"
        /\ shown.kind = "err"

\* A call of edit_todos on the editor path has returned (or panicked).
EditorCall == call.who # "none" /\ call.wants_editor

\* C10 (as claimed): an editor that exits non-zero and an editor that cannot
\* be spawned both give an error result, this program saves nothing on the
\* editor path, and only after exit status zero is the list reloaded, which
\* is the list rendered.
C10_EditorPath ==
    EditorCall =>
        /\ call.editor \in {"nonzero", "spawn_failed"} => call.out.res.kind = "err"
        /\ call.out.save = "none"
        /\ call.editor = "spawn_failed" => file = call.before
        /\ call.editor = "zero" => call.out.res = acquire_todos(call.out.file)
        /\ (pc = "done" /\ call.editor = "zero") => shown = acquire_todos(file)

\* A verb edit has succeeded: edit_todos returned the list.
EditSaved == VerbCall /\ call.out.res.kind = "ok"

\* The file holds exactly the items of list, one newline between two
\* neighbours and none after the last: cutting the content at its newlines
\* gives the items back (no content for no item).
HoldsExactly(f, list) ==
    /\ f.exists
    /\ IF list = <<>> THEN f.data = <<>> ELSE Split(f.data, NL) = list

\* A step of (or into) an invocation without arguments leaves the file as
\* it is.
NoArgStepKeepsFile ==
    (Len(args') = 1 /\ pc' \in {"args", "render", "done"}) => file' = file

MaxData == 6

\* The bytes of those contents: a letter, the comment mark, newline, carriage
\* return, a byte that is not UTF-8.
DataBytes == {"a", "#", NL, CR, BAD}

\* Every content of at most MaxData bytes, and no file.
InitLoad ==
    /\ file \in {FileOf(d) : d \in SeqsUpTo(DataBytes, MaxData)} \cup {NoFile}
    /\ pc = "idle"
    /\ args = <<S_prog>>
    /\ todos = NoResult
    /\ call = NoCall
    /\ shown = NoResult
    /\ reported = {}
    /\ exit = -1

\* The invocation without arguments: load, render, end.
NextLoad ==
    \/ MainStart(<<S_prog>>)
    \/ MainNoArgs
    \/ MainRender
    \/ ProcessEnd

SpecLoad == InitLoad /\ [][NextLoad]_vars

\* The position of the first empty line of ls, or one past the last line.
FirstEmpty(ls) ==
    IF \E i \in 1..Len(ls) : ls[i] = <<>>
    THEN CHOOSE i \in 1..Len(ls) : ls[i] = <<>> /\ \A j \in 1..(i - 1) : ls[j] # <<>>
    ELSE Len(ls) + 1

IsItemLine(l) == l[1] # "#"

\* The lines before the first empty line that do not start with '#', in
\* file order.
BlockItems(ls) == SelectSeq(SubSeq(ls, 1, FirstEmpty(ls) - 1), IsItemLine)

\* main has loaded the todos of an existing file.
Loaded == pc \in {"args", "render"} /\ file.exists

\* C12 (as claimed): for every file content, acquire_todos returns, in file
\* order, exactly the lines before the first empty line (or the end of the
\* file) that do not start with '#'.
C12_LoadBoundary == Loaded => todos = Ok(BlockItems(Lines(file.data)))

\* C12 (amended): so it does for every content whose lines before the first
\* empty line are UTF-8; a line before it that is not makes acquire_todos
\* return the error instead of a list.  What stands at or after the first
\* empty line has no effect.
C12_LoadBoundaryUtf8 ==
    Loaded =>
        LET ls == Lines(file.data)
        IN  IF \A i \in 1..(FirstEmpty(ls) - 1) : ValidUtf8(ls[i])
            THEN todos = Ok(BlockItems(ls))
            ELSE todos = Err("utf8")

\* C12's case: a file with a comment line before an item, then an empty line
\* and something after it, has been loaded.
C12_CommentAndBlank ==
    /\ Loaded
    /\ LET ls == Lines(file.data)
       IN  /\ Len(ls) > FirstEmpty(ls)
           /\ \E i, j \in 1..(FirstEmpty(ls) - 1) :
                 i < j /\ ls[i][1] = "#" /\ ls[j][1] = "a"
    /\ todos.kind = "ok"

=============================================================================
